---- MODULE Spec2Model ----
(***************************************************************************)
(* GitHub Issue Assistant: the /analyze request path.                      *)
(*                                                                         *)
(*   app/main.py           analyze_issue, extract_owner_repo, handlers     *)
(*   app/github_client.py  GitHubClient: TTL cache, get_issue,             *)
(*                         get_issue_comments, get_issue_data              *)
(*   app/llm_analyzer.py   LLMAnalyzer.analyze_issue, llm_analyzer         *)
(*   app/models.py         GitHubIssueRequest (issue_number gt=0)          *)
(*                                                                         *)
(* Every request is an asyncio task.  A task runs without interruption     *)
(* between two awaits, so one action is one such stretch of the handler:   *)
(* from the arrival of the request to the first await, and from the        *)
(* completion of an awaited call to the next await or to the response.     *)
(* Strings are sequences of tokens: "/" is the slash, "github.com" the     *)
(* host marker, every other token a run of characters that holds neither.  *)
(***************************************************************************)
EXTENDS Integers, Sequences, FiniteSets, TLC

VARIABLES now, cache, cache_expiry, llm_analyzer, req, content, analysis

vars == <<now, cache, cache_expiry, llm_analyzer, req, content, analysis>>

\* one call of LLMAnalyzer.analyze_issue taken alone, as the tests of
\* tests/test_llm_analyzer.py take it: the text the provider returned and
\* what analyze_issue made of it
call == <<content, analysis>>

\* ------------------------------------------------------------- bounds
MaxTime == 2
MaxReqs == 2
MaxRev == 1
MaxComments == 1
\* GITHUB_CACHE_TTL, scaled down from its default of 300 seconds
ttl_seconds == 2
\* the longest `type` string of a reply, in tokens, and its longest label list
MaxTypeLen == 5
MaxLabels == 8
\* IssueAnalysis.suggested_labels: Field(..., min_items=1, max_items=5)
min_items == 1
max_items == 5

Reqs == 1..MaxReqs

\* ------------------------------------------------------------- inputs
SLASH == "/"
MARKER == "github.com"

UrlRepoSlash == <<"https:", "/", "/", "github.com", "/", "a", "/", "b", "/">>
UrlOwnerOnly == <<"https:", "/", "/", "github.com", "/", "a">>
UrlHostOnly == <<"https:", "/", "/", "github.com">>
UrlNotGithub == <<"https:", "/", "/", "google.com", "/", "notgithub">>

RepoUrls == {UrlRepoSlash, UrlOwnerOnly, UrlHostOnly, UrlNotGithub}

IssueNumbers == {-1, 0, 1}

\* what GitHub can answer to one GET: a 2xx, an error status (with the
\* rate-limit headers of the answer, "unknown" when absent), or no answer
NoResp == [kind |-> "none", status_code |-> 0, remaining |-> "unknown", reset |-> "unknown"]
RespOk == [kind |-> "ok", status_code |-> 200, remaining |-> "unknown", reset |-> "unknown"]
Resp404 == [kind |-> "status", status_code |-> 404, remaining |-> "unknown", reset |-> "unknown"]
Resp403Exhausted == [kind |-> "status", status_code |-> 403, remaining |-> "0", reset |-> "1625097600"]
Resp403Other == [kind |-> "status", status_code |-> 403, remaining |-> "unknown", reset |-> "unknown"]
Resp429 == [kind |-> "status", status_code |-> 429, remaining |-> "unknown", reset |-> "unknown"]
Resp503 == [kind |-> "status", status_code |-> 503, remaining |-> "unknown", reset |-> "unknown"]
RespRequestError == [kind |-> "request_error", status_code |-> 0, remaining |-> "unknown", reset |-> "unknown"]

GitHubResponses ==
  {RespOk, Resp404, Resp403Exhausted, Resp403Other, Resp429, Resp503, RespRequestError}

\* the JSON of an issue is its revision; the JSON of the comments a list
IssueBodies == 1..MaxRev
CommentBodies == {[i \in 1..n |-> i] : n \in 0..MaxComments}

\* a JSON value: absent from the object, null, a number, a string (its
\* tokens in `chars`) or a list of strings (its items in `chars`)
Val(tag, chars, num) == [tag |-> tag, chars |-> chars, num |-> num]
Absent == Val("absent", <<>>, 0)
Null == Val("null", <<>>, 0)
Num(n) == Val("number", <<>>, n)
Str(s) == Val("string", s, 0)
List(l) == Val("list", l, 0)

\* what the provider call can do: fail, or return a text that is no JSON, a
\* JSON value that is no object, or a JSON object with some of the five fields
Reply(kind, type, priority_score, suggested_labels, summary, potential_impact) ==
  [kind |-> kind, type |-> type, priority_score |-> priority_score,
   suggested_labels |-> suggested_labels, summary |-> summary,
   potential_impact |-> potential_impact]

NoReply == Reply("none", Absent, Absent, Absent, Absent, Absent)
ReplyRequestError == Reply("request_error", Absent, Absent, Absent, Absent, Absent)
ReplyNonJson == Reply("non_json", Absent, Absent, Absent, Absent, Absent)
ReplyJsonArray == Reply("json_array", Absent, Absent, Absent, Absent, Absent)
ReplyJsonString == Reply("json_string", Absent, Absent, Absent, Absent, Absent)
ReplyJsonNull == Reply("json_null", Absent, Absent, Absent, Absent, Absent)
ReplyObject(type, priority_score, suggested_labels, summary, potential_impact) ==
  Reply("json_object", type, priority_score, suggested_labels, summary, potential_impact)

\* a `type` string is a sequence of tokens: the space, the underscore, and
\* words in some case
TypeTokens == {" ", "_", "Bug", "bug", "FEATURE", "REQUEST", "nonsense"}
RECURSIVE SeqsUpTo(_, _)
SeqsUpTo(S, n) ==
  IF n = 0 THEN {<<>>}
  ELSE LET shorter == SeqsUpTo(S, n - 1)
       IN shorter \cup {Append(s, x) : s \in shorter, x \in S}
TypeValues == {Absent, Null, Num(5)} \cup {Str(s) : s \in SeqsUpTo(TypeTokens, MaxTypeLen)}

LabelNames == <<"bug", "authentication", "ui", "api", "docs", "perf", "tests", "infra", "ci">>
LabelValues == {Absent, Null} \cup {List(SubSeq(LabelNames, 1, n)) : n \in 0..MaxLabels}
PriorityValues == {Absent, Num(3), Str(<<"5 - critical">>)}
SummaryValues == {Absent, Null, Str(<<"User cannot log in">>)}
ImpactValues == {Absent, Str(<<"Users are locked out">>)}

\* the reply of tests/test_llm_analyzer.py::test_llm_analyzer_openai_mock
ReplyExpected ==
  ReplyObject(Str(<<"bug">>), Str(<<"5 - critical">>), List(SubSeq(LabelNames, 1, 2)),
              Str(<<"User cannot log in">>), Str(<<"Users are locked out">>))

\* the replies of the provider to POST /analyze
LLMReplies == {ReplyRequestError, ReplyNonJson, ReplyExpected}

\* the replies analyze_issue is called with when taken alone: every `type`
\* with the other fields as expected, and every combination of the other
\* fields with some types
ProviderReplies ==
  {ReplyRequestError, ReplyNonJson, ReplyJsonArray, ReplyJsonString, ReplyJsonNull}
  \cup {[ReplyExpected EXCEPT !.type = t] : t \in TypeValues}
  \cup {ReplyObject(t, p, l, s, i) :
          t \in {Absent, Str(<<"Bug">>), Str(<<"nonsense">>)},
          p \in PriorityValues, l \in LabelValues, s \in SummaryValues, i \in ImpactValues}

\* ------------------------------------------------------------ strings
RECURSIVE rstrip(_, _)
rstrip(s, c) ==
  IF s = <<>> \/ s[Len(s)] # c THEN s ELSE rstrip(SubSeq(s, 1, Len(s) - 1), c)

MatchAt(s, sub, i) ==
  /\ i + Len(sub) - 1 <= Len(s)
  /\ SubSeq(s, i, i + Len(sub) - 1) = sub

Contains(s, sub) == \E i \in 1..Len(s) : MatchAt(s, sub, i)

FirstIndex(s, sub) ==
  CHOOSE i \in 1..Len(s) : MatchAt(s, sub, i) /\ \A j \in 1..(i - 1) : ~MatchAt(s, sub, j)

\* str.split(sep): the pieces between the occurrences of sep, left to right
RECURSIVE split(_, _)
split(s, sep) ==
  IF ~Contains(s, sep) THEN <<s>>
  ELSE LET i == FirstIndex(s, sep)
       IN <<SubSeq(s, 1, i - 1)>> \o split(SubSeq(s, i + Len(sep), Len(s)), sep)

\* --------------------------------------------------------- exceptions
HTTPException(status_code, message, error_type, reset_time) ==
  [status_code |-> status_code, message |-> message,
   error_type |-> error_type, reset_time |-> reset_time]

NoResponse == HTTPException(0, "", "none", "none")
Response200 == HTTPException(200, "analysis", "none", "none")

\* ------------------------------------------------------ request model
\* ge=0 written for gt=0
ValidRequest_ge(issue_number) == issue_number >= 0

\* GitHubIssueRequest: issue_number: int = Field(..., gt=0)
ValidRequest(issue_number) == issue_number > 0

\* the answer to a body that fails validation
validation_exception_handler ==
  HTTPException(422, "Validation error", "validation_error", "none")

\* ----------------------------------------------------------- main.py
\* the JSON sent for an HTTPException: the keys detail and status_code; the
\* detail is passed as it was raised, a string or a dict (the ErrorResponse
\* of analyze_issue with its error_type, or the rate-limit dict with its
\* reset_time)
http_exception_handler(exc) ==
  LET isinstance_dict == exc.error_type # "none" \/ exc.reset_time # "none"
  IN [status_code |-> exc.status_code,
      detail |-> IF isinstance_dict THEN "object" ELSE "string",
      error_type |-> "none"]

extract_owner_repo(repo_url) ==
  LET url == rstrip(repo_url, SLASH)
      bad == [ok |-> FALSE, owner |-> <<>>, repo |-> <<>>,
              exc |-> HTTPException(400, "Invalid GitHub repository URL", "invalid_url", "none")]
  IN IF ~Contains(url, <<MARKER>>) THEN bad
     ELSE LET pieces == split(url, <<MARKER, SLASH>>)
              parts == split(pieces[Len(pieces)], <<SLASH>>)
          IN IF Len(parts) < 2 THEN bad
             ELSE [ok |-> TRUE, owner |-> parts[1], repo |-> parts[2], exc |-> NoResponse]

\* ---------------------------------------------------- github_client.py
Pop(d, key) == [k \in DOMAIN d \ {key} |-> d[k]]

\* a hit that renews the entry's expiry (a sliding TTL)
cache_get_sliding(key) ==
  IF key \in DOMAIN cache
     /\ (IF key \in DOMAIN cache_expiry THEN cache_expiry[key] ELSE 0) > now
  THEN [value |-> <<cache[key]>>, cache |-> cache,
        cache_expiry |-> [cache_expiry EXCEPT ![key] = now + ttl_seconds]]
  ELSE IF key \in DOMAIN cache
       THEN [value |-> <<>>, cache |-> Pop(cache, key), cache_expiry |-> Pop(cache_expiry, key)]
       ELSE [value |-> <<>>, cache |-> cache, cache_expiry |-> cache_expiry]

\* >= written for >: an entry is still served at its expiry
cache_get_ge(key) ==
  IF key \in DOMAIN cache
     /\ (IF key \in DOMAIN cache_expiry THEN cache_expiry[key] ELSE 0) >= now
  THEN [value |-> <<cache[key]>>, cache |-> cache, cache_expiry |-> cache_expiry]
  ELSE IF key \in DOMAIN cache
       THEN [value |-> <<>>, cache |-> Pop(cache, key), cache_expiry |-> Pop(cache_expiry, key)]
       ELSE [value |-> <<>>, cache |-> cache, cache_expiry |-> cache_expiry]

\* a lookup sweeps the maps: every expired entry is dropped, not only the key's
cache_get_sweep(key) ==
  LET live == {k \in DOMAIN cache :
                 (IF k \in DOMAIN cache_expiry THEN cache_expiry[k] ELSE 0) > now}
  IN [value |-> IF key \in live THEN <<cache[key]>> ELSE <<>>,
      cache |-> [k \in live |-> cache[k]],
      cache_expiry |-> [k \in live |-> cache_expiry[k]]]

cache_get(key) ==
  IF key \in DOMAIN cache
     /\ (IF key \in DOMAIN cache_expiry THEN cache_expiry[key] ELSE 0) > now
  THEN [value |-> <<cache[key]>>, cache |-> cache, cache_expiry |-> cache_expiry]
  ELSE IF key \in DOMAIN cache
       THEN [value |-> <<>>, cache |-> Pop(cache, key), cache_expiry |-> Pop(cache_expiry, key)]
       ELSE [value |-> <<>>, cache |-> cache, cache_expiry |-> cache_expiry]

\* setdefault: a write keeps the entry the key already has
cache_set_first(key, value) ==
  IF key \in DOMAIN cache
  THEN [cache |-> cache, cache_expiry |-> cache_expiry]
  ELSE [cache |-> [k \in DOMAIN cache \cup {key} |-> IF k = key THEN value ELSE cache[k]],
        cache_expiry |-> [k \in DOMAIN cache_expiry \cup {key} |->
                            IF k = key THEN now + ttl_seconds ELSE cache_expiry[k]]]

cache_set(key, value) ==
  [cache |-> [k \in DOMAIN cache \cup {key} |-> IF k = key THEN value ELSE cache[k]],
   cache_expiry |-> [k \in DOMAIN cache_expiry \cup {key} |->
                       IF k = key THEN now + ttl_seconds ELSE cache_expiry[k]]]

\* a 404 is not raised: the issue call returns whatever body came with it
get_issue_lenient(resp, body) ==
  IF resp.kind = "ok" \/ (resp.kind = "status" /\ resp.status_code = 404)
  THEN [ok |-> TRUE, value |-> <<body>>, exc |-> NoResponse]
  ELSE IF resp.kind = "status"
  THEN IF resp.status_code = 403 /\ resp.remaining = "0"
       THEN [ok |-> FALSE, value |-> <<>>,
             exc |-> HTTPException(429, "GitHub API rate limit exceeded", "none", resp.reset)]
       ELSE [ok |-> FALSE, value |-> <<>>,
             exc |-> HTTPException(resp.status_code, "GitHub API error", "none", "none")]
  ELSE [ok |-> FALSE, value |-> <<>>,
        exc |-> HTTPException(503, "Failed to connect to GitHub API", "none", "none")]

get_issue(resp, body) ==
  IF resp.kind = "ok" THEN [ok |-> TRUE, value |-> <<body>>, exc |-> NoResponse]
  ELSE IF resp.kind = "status"
  THEN IF resp.status_code = 404
       THEN [ok |-> FALSE, value |-> <<>>,
             exc |-> HTTPException(404, "Issue not found or repository is private", "none", "none")]
       ELSE IF resp.status_code = 403 /\ resp.remaining = "0"
       THEN [ok |-> FALSE, value |-> <<>>,
             exc |-> HTTPException(429, "GitHub API rate limit exceeded", "none", resp.reset)]
       ELSE [ok |-> FALSE, value |-> <<>>,
             exc |-> HTTPException(resp.status_code, "GitHub API error", "none", "none")]
  ELSE [ok |-> FALSE, value |-> <<>>,
        exc |-> HTTPException(503, "Failed to connect to GitHub API", "none", "none")]

\* every error status soft-fails, not only 404
get_issue_comments_soft(resp, body) ==
  IF resp.kind = "ok" THEN [ok |-> TRUE, value |-> body, exc |-> NoResponse]
  ELSE IF resp.kind = "status"
  THEN [ok |-> TRUE, value |-> <<>>, exc |-> NoResponse]
  ELSE [ok |-> FALSE, value |-> <<>>,
        exc |-> HTTPException(503, "Failed to connect to GitHub API", "none", "none")]

\* no soft-fail: a 404 is raised like any other status
get_issue_comments_hard(resp, body) ==
  IF resp.kind = "ok" THEN [ok |-> TRUE, value |-> body, exc |-> NoResponse]
  ELSE IF resp.kind = "status"
  THEN [ok |-> FALSE, value |-> <<>>,
        exc |-> HTTPException(resp.status_code, "Failed to fetch comments", "none", "none")]
  ELSE [ok |-> FALSE, value |-> <<>>,
        exc |-> HTTPException(503, "Failed to connect to GitHub API", "none", "none")]

get_issue_comments(resp, body) ==
  IF resp.kind = "ok" THEN [ok |-> TRUE, value |-> body, exc |-> NoResponse]
  ELSE IF resp.kind = "status"
  THEN IF resp.status_code = 404
       THEN [ok |-> TRUE, value |-> <<>>, exc |-> NoResponse]
       ELSE [ok |-> FALSE, value |-> <<>>,
             exc |-> HTTPException(resp.status_code, "Failed to fetch comments", "none", "none")]
  ELSE [ok |-> FALSE, value |-> <<>>,
        exc |-> HTTPException(503, "Failed to connect to GitHub API", "none", "none")]

\* --------------------------------------------------------- models.py
\* class IssueType(str, Enum): the values, as token sequences
IssueType ==
  {<<"bug">>, <<"feature", "_", "request">>, <<"documentation">>, <<"question">>, <<"other">>}

NoAnalysis ==
  [summary |-> <<>>, type |-> <<>>, priority_score |-> <<>>,
   suggested_labels |-> <<>>, potential_impact |-> <<>>]

\* IssueAnalysis(...): the field checks of the model; the fields arrive as
\* JSON values, and a str field takes a string only
IssueAnalysis_valid(summary, priority_score, suggested_labels, potential_impact) ==
  /\ summary.tag = "string"
  /\ priority_score.tag = "string"
  /\ suggested_labels.tag = "list"
  /\ Len(suggested_labels.chars) >= min_items
  /\ Len(suggested_labels.chars) <= max_items
  /\ potential_impact.tag = "string"

\* --------------------------------------------------------- llm_analyzer.py
Whitespace == {" "}

\* only the right end is stripped
strip_right(s) ==
  LET keep == {i \in 1..Len(s) : s[i] \notin Whitespace}
  IN IF keep = {} THEN <<>>
     ELSE SubSeq(s, 1, CHOOSE i \in keep : \A j \in keep : j <= i)

\* str.strip(): the whitespace at both ends is dropped
strip(s) ==
  LET keep == {i \in 1..Len(s) : s[i] \notin Whitespace}
  IN IF keep = {} THEN <<>>
     ELSE SubSeq(s, CHOOSE i \in keep : \A j \in keep : i <= j,
                    CHOOSE i \in keep : \A j \in keep : j <= i)

\* str.lower(), token by token
lower(s) ==
  [i \in 1..Len(s) |->
     CASE s[i] = "Bug" -> "bug"
       [] s[i] = "FEATURE" -> "feature"
       [] s[i] = "REQUEST" -> "request"
       [] OTHER -> s[i]]

\* str.replace(old, new) for one-token old and new
replace(s, old, new) == [i \in 1..Len(s) |-> IF s[i] = old THEN new ELSE s[i]]

\* str(v) of a JSON value: a string is itself, None is "None", a number
\* its digits
Digits == <<"0", "1", "2", "3", "4", "5", "6", "7", "8", "9">>
str(v) ==
  CASE v.tag = "string" -> v.chars
    [] v.tag = "null" -> <<"None">>
    [] v.tag = "number" -> <<Digits[v.num + 1]>>
    [] OTHER -> <<"[...]">>

\* parsed.get(field, default): the default only when the field is absent
get(v, default) == IF v.tag = "absent" THEN default ELSE v

\* the whole list is kept
slice_all(l, n) == l

\* l[:n]
slice(l, n) == SubSeq(l, 1, IF Len(l) < n THEN Len(l) ELSE n)

Raised(raised, cause) ==
  [ok |-> FALSE, raised |-> raised, cause |-> cause, analysis |-> NoAnalysis]

\* analyze_issue from the provider call to the return: what it returns, or
\* the exception it raises (`cause` is the exception the handlers caught)
LLMAnalyzer_analyze_issue(reply) ==
  IF reply.kind = "request_error" THEN Raised("Exception", "APIError")
  ELSE IF reply.kind = "non_json" THEN Raised("ValueError", "JSONDecodeError")
  ELSE IF reply.kind # "json_object" THEN Raised("Exception", "AttributeError")
  ELSE
    LET parsed_type == replace(lower(strip(str(get(reply.type, Str(<<"other">>))))), " ", "_")
        type == IF parsed_type \notin IssueType THEN <<"other">> ELSE parsed_type
        p == get(reply.priority_score, Str(<<"1">>))
        prio == IF p.tag # "string" THEN Str(str(p)) ELSE p
        summary == get(reply.summary, Str(<<>>))
        labels == get(reply.suggested_labels, List(<<>>))
        potential_impact == get(reply.potential_impact, Str(<<>>))
    IN IF labels.tag # "list" THEN Raised("Exception", "TypeError")
       ELSE LET suggested_labels == List(slice(labels.chars, 5))
            IN IF ~IssueAnalysis_valid(summary, prio, suggested_labels, potential_impact)
               THEN Raised("Exception", "ValidationError")
               ELSE [ok |-> TRUE, raised |-> "none", cause |-> "none",
                     analysis |-> [summary |-> summary.chars, type |-> type,
                                   priority_score |-> prio.chars,
                                   suggested_labels |-> suggested_labels.chars,
                                   potential_impact |-> potential_impact.chars]]

\* ----------------------------------------------------- main.py: /health
\* the status follows the analyzer: 503 and "degraded" without one
health_check_degraded ==
  [status_code |-> IF llm_analyzer THEN 200 ELSE 503,
   status |-> IF llm_analyzer THEN "healthy" ELSE "degraded",
   github_api |-> "operational",
   llm_service |-> IF llm_analyzer THEN "operational" ELSE "unavailable"]

\* GET /health reads the two module-level singletons and changes nothing, so
\* it is the answer a request gets in the state it arrives in; github_client
\* is always constructed
health_check ==
  [status_code |-> 200,
   status |-> "healthy",
   github_api |-> "operational",
   llm_service |-> IF llm_analyzer THEN "operational" ELSE "unavailable"]

\* ------------------------------------------------------------- state
Idle ==
  [pc |-> "idle", repo_url |-> <<>>, issue_number |-> 0, owner |-> <<>>, repo |-> <<>>,
   issue |-> <<>>, issue_data |-> <<>>, gh_resp |-> NoResp, llm_reply |-> "none",
   response |-> NoResponse, stored_at |-> <<>>,
   n_lookup |-> 0, n_issue |-> 0, n_comments |-> 0, n_write |-> 0, n_llm |-> 0]

KeyOf(q) == <<q.owner, q.repo, q.issue_number>>

Init ==
  /\ now = 0
  /\ cache = <<>>
  /\ cache_expiry = <<>>
  /\ llm_analyzer \in BOOLEAN
  /\ req = [r \in Reqs |-> Idle]
  /\ content = NoReply
  /\ analysis = <<>>

\* the handler ends with a response; what is kept of the request is what it
\* asked, what it was answered, what it did and what get_issue_data gave it
Finish(q, response) ==
  [q EXCEPT !.pc = "done", !.response = response, !.issue = <<>>, !.stored_at = <<>>]

\* analyze_issue after get_issue_data has returned: the analyzer check, then
\* the provider call (the next await)
AfterFetch(q) ==
  IF ~llm_analyzer
  THEN Finish(q, HTTPException(503, "LLM service is not available",
                                "service_unavailable", "none"))
  ELSE [q EXCEPT !.pc = "await_llm", !.n_llm = @ + 1]

\* POST /analyze arrives: validation, extract_owner_repo, get_issue_data up
\* to its first await (the cache lookup, and get_issue's GET on a miss)
analyze_issue(r) ==
  /\ req[r].pc = "idle"
  /\ \E repo_url \in RepoUrls, issue_number \in IssueNumbers :
       LET q0 == [req[r] EXCEPT !.repo_url = repo_url, !.issue_number = issue_number]
       IN IF ~ValidRequest(issue_number)
          THEN /\ req' = [req EXCEPT ![r] = Finish(q0, validation_exception_handler)]
               /\ UNCHANGED <<cache, cache_expiry>>
          ELSE LET p == extract_owner_repo(repo_url)
               IN IF ~p.ok
                  THEN /\ req' = [req EXCEPT ![r] = Finish(q0, p.exc)]
                       /\ UNCHANGED <<cache, cache_expiry>>
                  ELSE LET q1 == [q0 EXCEPT !.owner = p.owner, !.repo = p.repo, !.n_lookup = @ + 1]
                           got == cache_get(KeyOf(q1))
                       IN /\ cache' = got.cache
                          /\ cache_expiry' = got.cache_expiry
                          /\ IF got.value # <<>>
                             THEN req' = [req EXCEPT ![r] =
                                            AfterFetch([q1 EXCEPT !.issue_data = got.value])]
                             ELSE req' = [req EXCEPT ![r] =
                                            [q1 EXCEPT !.pc = "await_issue", !.n_issue = @ + 1]]
  /\ UNCHANGED <<now, llm_analyzer, call>>

\* get_issue's GET completes: the issue, then get_issue_comments' GET; or
\* the HTTPException, which analyze_issue re-raises
get_issue_returns(r) ==
  /\ req[r].pc = "await_issue"
  /\ \E resp \in GitHubResponses, body \in IssueBodies :
       LET res == get_issue(resp, body)
           q1 == [req[r] EXCEPT !.gh_resp = resp]
       IN IF res.ok
          THEN req' = [req EXCEPT ![r] = [q1 EXCEPT !.pc = "await_comments",
                                                   !.issue = res.value, !.n_comments = @ + 1]]
          ELSE req' = [req EXCEPT ![r] = Finish(q1, res.exc)]
  /\ UNCHANGED <<now, cache, cache_expiry, llm_analyzer, call>>

\* get_issue_comments' GET completes: the bundle is cached and returned to
\* analyze_issue; or the HTTPException, which analyze_issue re-raises
get_issue_comments_returns(r) ==
  /\ req[r].pc = "await_comments"
  /\ \E resp \in GitHubResponses, body \in CommentBodies :
       LET res == get_issue_comments(resp, body)
           q1 == [req[r] EXCEPT !.gh_resp = resp]
       IN IF res.ok
          THEN LET result == [issue |-> q1.issue[1], comments |-> res.value]
                   set == cache_set(KeyOf(q1), result)
               IN /\ cache' = set.cache
                  /\ cache_expiry' = set.cache_expiry
                  /\ req' = [req EXCEPT ![r] =
                               AfterFetch([q1 EXCEPT !.issue_data = <<result>>,
                                                     !.n_write = @ + 1,
                                                     !.stored_at = <<now>>])]
          ELSE /\ req' = [req EXCEPT ![r] = Finish(q1, res.exc)]
               /\ UNCHANGED <<cache, cache_expiry>>
  /\ UNCHANGED <<now, llm_analyzer, call>>

\* the provider call completes: the analysis, or the exception that
\* analyze_issue turns into a 500
llm_returns(r) ==
  /\ req[r].pc = "await_llm"
  /\ \E reply \in LLMReplies :
       LET res == LLMAnalyzer_analyze_issue(reply)
           \* the bundle went into the prompt; the analysis takes its place
           q1 == [req[r] EXCEPT !.llm_reply = reply.kind, !.issue_data = <<>>]
       IN IF res.ok
          THEN req' = [req EXCEPT ![r] = Finish(q1, Response200)]
          ELSE req' = [req EXCEPT ![r] =
                         Finish(q1, HTTPException(500, "An error occurred while processing your request",
                                                  "analysis_error", "none"))]
  /\ UNCHANGED <<now, cache, cache_expiry, llm_analyzer, call>>

\* the response is sent and the task ends
respond(r) ==
  /\ req[r].pc = "done"
  /\ req' = [req EXCEPT ![r] = Idle]
  /\ UNCHANGED <<now, cache, cache_expiry, llm_analyzer, call>>

\* time.time() advances
Tick ==
  /\ now < MaxTime
  /\ now' = now + 1
  /\ UNCHANGED <<cache, cache_expiry, llm_analyzer, req, call>>

Next ==
  \/ \E r \in Reqs : analyze_issue(r)
  \/ \E r \in Reqs : get_issue_returns(r)
  \/ \E r \in Reqs : get_issue_comments_returns(r)
  \/ \E r \in Reqs : llm_returns(r)
  \/ \E r \in Reqs : respond(r)
  \/ Tick

Spec == Init /\ [][Next]_vars

\* ------------------------------------------- analyze_issue taken alone
\* the service is as constructed; the provider has returned `content`
InitAnalyzer ==
  /\ now = 0
  /\ cache = <<>>
  /\ cache_expiry = <<>>
  /\ llm_analyzer = TRUE
  /\ req = [r \in Reqs |-> Idle]
  /\ content \in ProviderReplies
  /\ analysis = <<>>

\* analyze_issue runs from the provider's return to its own return or raise
LLMAnalyzer_call ==
  /\ analysis = <<>>
  /\ analysis' = <<LLMAnalyzer_analyze_issue(content)>>
  /\ UNCHANGED <<now, cache, cache_expiry, llm_analyzer, req, content>>

NextAnalyzer == LLMAnalyzer_call

SpecAnalyzer == InitAnalyzer /\ [][NextAnalyzer]_vars

\* ===================================================================
\* Properties
\* ===================================================================

\* the path segments after the host marker: what follows its first
\* occurrence, cut at the slashes, empty pieces left out
PathSegments(repo_url) ==
  LET url == rstrip(repo_url, SLASH)
      after == SubSeq(url, FirstIndex(url, <<MARKER>>) + 1, Len(url))
  IN SelectSeq(split(after, <<SLASH>>), LAMBDA piece : piece # <<>>)

MalformedUrl(repo_url) ==
  \/ ~Contains(rstrip(repo_url, SLASH), <<MARKER>>)
  \/ Len(PathSegments(repo_url)) < 2

\* a request that is in the handler with a positive issue number and a
\* repo_url that names the host and an owner and a repository after it
WellFormed(q) ==
  /\ q.pc # "idle"
  /\ q.issue_number > 0
  /\ ~MalformedUrl(q.repo_url)

\* request r enters get_issue_data in this step (the cache lookup is made)
Lookup(r) == req[r].pc = "idle" /\ req'[r].n_lookup = 1

\* the awaited GET of request r completes in this step
IssueStep(r) == req[r].pc = "await_issue" /\ req'[r].pc # "await_issue"
CommentsStep(r) == req[r].pc = "await_comments" /\ req'[r].pc # "await_comments"

\* request a fetched and stored its bundle, and the TTL window of that write
\* is still open
StoredInWindow(a) ==
  /\ req[a].stored_at # <<>>
  /\ now < req[a].stored_at[1] + ttl_seconds

NoGitHubCall(q) == q.n_issue = 0 /\ q.n_comments = 0

\* C1 as stated: after a fetch for a key succeeded at time t, a call for the
\* key before t + ttl_seconds returns the bundle that fetch stored, makes no
\* GitHub call and leaves the cached value and its expiry unchanged.
C1_ReturnsBundleStoredAtT ==
  [][\A a, c \in Reqs :
       (WellFormed(req[a]) /\ StoredInWindow(a) /\ Lookup(c) /\ KeyOf(req'[c]) = KeyOf(req[a]))
         => /\ req'[c].issue_data = req[a].issue_data
            /\ NoGitHubCall(req'[c])
            /\ cache' = cache
            /\ cache_expiry' = cache_expiry]_vars

\* C1 amended: after a fetch for a key succeeded at time t, a call for the
\* key before t + ttl_seconds returns the bundle the cache holds for the key
\* (the one stored last), makes no GitHub call and leaves the cached value
\* and its expiry unchanged.
C1_HitWithinTTL ==
  [][\A a, c \in Reqs :
       (StoredInWindow(a) /\ Lookup(c) /\ KeyOf(req'[c]) = KeyOf(req[a]))
         => /\ KeyOf(req[a]) \in DOMAIN cache
            /\ req'[c].issue_data = <<cache[KeyOf(req[a])]>>
            /\ NoGitHubCall(req'[c])
            /\ req'[c].n_write = 0
            /\ cache' = cache
            /\ cache_expiry' = cache_expiry]_vars

\* a request was served from the cache inside the TTL window of another
\* request's write, one tick after that write
C1_Witness ==
  \E a, c \in Reqs :
    /\ req[a].stored_at # <<>>
    /\ now = req[a].stored_at[1] + 1
    /\ now < req[a].stored_at[1] + ttl_seconds
    /\ req[c].pc = "await_llm"
    /\ req[c].n_lookup = 1
    /\ NoGitHubCall(req[c])
    /\ KeyOf(req[c]) = KeyOf(req[a])
    /\ req[c].issue_data = <<cache[KeyOf(req[a])]>>
    /\ cache_expiry[KeyOf(req[a])] = req[a].stored_at[1] + ttl_seconds

\* C2: at or past an entry's expiry the next call for the key does not
\* return the entry: it purges it and makes a fresh issue call; and a fetch
\* whose two calls succeed stores exactly the bundle it fetched, with expiry
\* = the time of the write + ttl_seconds, and returns that bundle.
C2_ExpiredRefetch ==
  [][\A r \in Reqs :
       /\ (/\ Lookup(r)
           /\ KeyOf(req'[r]) \in DOMAIN cache
           /\ now >= cache_expiry[KeyOf(req'[r])])
            => /\ req'[r].pc = "await_issue"
               /\ req'[r].n_issue = 1
               /\ req'[r].issue_data = <<>>
               /\ KeyOf(req'[r]) \notin DOMAIN cache'
               /\ KeyOf(req'[r]) \notin DOMAIN cache_expiry'
       /\ (IssueStep(r) /\ req'[r].gh_resp = RespOk)
            => /\ req'[r].pc = "await_comments"
               /\ req'[r].n_comments = 1
       /\ (CommentsStep(r) /\ req'[r].gh_resp \in {RespOk, Resp404})
            => /\ KeyOf(req[r]) \in DOMAIN cache'
               /\ cache'[KeyOf(req[r])].issue = req[r].issue[1]
               /\ req'[r].issue_data = <<cache'[KeyOf(req[r])]>>
               /\ cache_expiry'[KeyOf(req[r])] = now + ttl_seconds
               /\ req'[r].n_write = 1]_vars

\* a stored its bundle, the window of that write has closed, a lookup at or
\* past the expiry has purged the entry (nothing else removes one), and r,
\* the request in the other slot, is making the fresh issue call for the key
C2_Witness ==
  \E a, r \in Reqs :
    /\ req[a].stored_at # <<>>
    /\ now >= req[a].stored_at[1] + ttl_seconds
    /\ req[r].pc = "await_issue"
    /\ req[r].n_issue = 1
    /\ KeyOf(req[r]) = KeyOf(req[a])
    /\ KeyOf(req[a]) \notin DOMAIN cache

\* the fetch of request r fails in this step: the issue call with anything
\* but a 2xx, the comments call with anything but a 2xx or a 404
FetchFailsStep(r) ==
  \/ IssueStep(r) /\ req'[r].gh_resp # RespOk
  \/ CommentsStep(r) /\ req'[r].gh_resp \notin {RespOk, Resp404}

\* C3: a get_issue_data call that fails (the issue call fails, or the
\* comments call fails with anything other than 404) writes nothing: the step
\* that fails leaves both cache maps as they were and ends the request with
\* the error, and the lookup that opened a fetch creates no entry and leaves
\* the entries of all other keys unchanged.
C3_NoWriteOnFailure ==
  [][\A r \in Reqs :
       /\ FetchFailsStep(r)
            => /\ cache' = cache
               /\ cache_expiry' = cache_expiry
               /\ req'[r].pc = "done"
               /\ req'[r].response.status_code >= 400
               /\ req'[r].n_write = 0
               /\ req'[r].issue_data = <<>>
       /\ (Lookup(r) /\ req'[r].pc = "await_issue")
            => /\ DOMAIN cache' = DOMAIN cache \ {KeyOf(req'[r])}
               /\ DOMAIN cache_expiry' = DOMAIN cache_expiry \ {KeyOf(req'[r])}
               /\ \A k \in DOMAIN cache' :
                    cache'[k] = cache[k] /\ cache_expiry'[k] = cache_expiry[k]]_vars

\* a fetch failed at the comments call with a 403; its key has no entry,
\* and the entry of another key is in the cache
C3_Witness ==
  \E r \in Reqs :
    /\ req[r].pc = "done"
    /\ req[r].n_comments = 1
    /\ req[r].gh_resp = Resp403Other
    /\ req[r].response.status_code = 403
    /\ KeyOf(req[r]) \notin DOMAIN cache
    /\ DOMAIN cache # {}

\* C4: a 404 from the comments endpoint is a soft-fail: get_issue_data
\* succeeds with the fetched issue and comments = [], and caches that
\* bundle; a 404 from the issue endpoint ends the request with status 404
\* and the comments endpoint is never called.
C4_Comments404SoftIssue404Hard ==
  [][\A r \in Reqs :
       /\ (CommentsStep(r) /\ req'[r].gh_resp = Resp404)
            => /\ req'[r].issue_data =
                    <<[issue |-> req[r].issue[1], comments |-> <<>>]>>
               /\ KeyOf(req[r]) \in DOMAIN cache'
               /\ cache'[KeyOf(req[r])] = [issue |-> req[r].issue[1], comments |-> <<>>]
               /\ req'[r].n_write = 1
               /\ req'[r].response.status_code \notin {404}
       /\ (IssueStep(r) /\ req'[r].gh_resp = Resp404)
            => /\ req'[r].pc = "done"
               /\ req'[r].response.status_code = 404
               /\ req'[r].n_comments = 0
               /\ req'[r].n_write = 0]_vars

\* the comments call of a request was answered 404, and the request goes on
\* to the provider with the bundle of its issue and no comments, which the
\* cache holds
C4_Witness ==
  \E r \in Reqs :
    /\ req[r].pc = "await_llm"
    /\ req[r].n_comments = 1
    /\ req[r].gh_resp = Resp404
    /\ req[r].issue_data = <<[issue |-> req[r].issue[1], comments |-> <<>>]>>
    /\ KeyOf(req[r]) \in DOMAIN cache
    /\ cache[KeyOf(req[r])] = req[r].issue_data[1]

\* C5 as stated: whenever GitHub answers 403 with X-RateLimit-Remaining = 0,
\* on the issue call or on the comments call, the fetch fails with status
\* 429 and the error carries the X-RateLimit-Reset value.
C5_RateLimitedIs429 ==
  \A r \in Reqs :
    (WellFormed(req[r]) /\ req[r].gh_resp.status_code = 403
       /\ req[r].gh_resp.remaining = "0")
      => /\ req[r].pc = "done"
         /\ req[r].response.status_code = 429
         /\ req[r].response.reset_time = req[r].gh_resp.reset

\* the four failure classes of the Fetcher, by what GitHub answered
FetchFailed(q) ==
  /\ q.pc = "done"
  /\ q.gh_resp.kind \in {"status", "request_error"}
  /\ ~(q.n_comments = 1 /\ q.gh_resp = Resp404)

FailureClass(q) ==
  IF q.gh_resp.kind = "request_error" THEN "connection"
  ELSE IF q.gh_resp.status_code = 404 THEN "not_found"
  ELSE IF q.gh_resp.status_code = 403 /\ q.gh_resp.remaining = "0" THEN "rate_limited"
  ELSE "other_http"

\* C6 as stated: two fetches that fail in different classes (not-found,
\* rate-limited, other HTTP error, connection failure) are reported with
\* different statuses.
C6_DistinctErrorKinds ==
  \A a, b \in Reqs :
    (WellFormed(req[a]) /\ WellFormed(req[b])
       /\ FetchFailed(req[a]) /\ FetchFailed(req[b])
       /\ FailureClass(req[a]) # FailureClass(req[b]))
      => req[a].response.status_code # req[b].response.status_code

\* C7 as stated: a request whose repo_url lacks the host marker, or has
\* fewer than two path segments after it, is answered 400 with no GitHub
\* call, no cache lookup or write and no LLM call.
C7_MalformedUrlIs400 ==
  \A r \in Reqs :
    (req[r].pc # "idle" /\ ValidRequest(req[r].issue_number)
       /\ MalformedUrl(req[r].repo_url))
      => /\ req[r].pc = "done"
         /\ req[r].response.status_code = 400
         /\ NoGitHubCall(req[r])
         /\ req[r].n_write = 0
         /\ req[r].n_llm = 0

C9_UnavailableFailsFast ==
  \A r \in Reqs :
    (~llm_analyzer /\ WellFormed(req[r]))
      => /\ req[r].pc = "done"
         /\ req[r].response.status_code = 503
         /\ req[r].response.error_type = "service_unavailable"
         /\ NoGitHubCall(req[r])
         /\ req[r].n_write = 0

\* C10 as stated: a request that met a transport failure, on a GitHub call
\* or on the provider call, is answered 503, never 500.
C10_TransportFailureIs503 ==
  \A r \in Reqs :
    (WellFormed(req[r]) /\ req[r].pc = "done"
       /\ (req[r].gh_resp.kind = "request_error" \/ req[r].llm_reply = "request_error"))
      => req[r].response.status_code = 503

\* the request failed in the Fetcher (a GitHub call) or in the Normalizer
\* (no analyzer, a failed provider call, a reply that is no JSON)
FetcherOrNormalizerFailed(q) ==
  /\ q.pc = "done"
  /\ WellFormed(q)
  /\ \/ FetchFailed(q)
     \/ q.response.status_code \in {500, 503} /\ q.n_lookup = 1

\* C15 as stated: every failure raised by the Fetcher or the Normalizer is
\* answered with a body whose detail is a string and which carries an
\* error_type tag.
C15_FailureIsErrorEnvelope ==
  \A r \in Reqs :
    FetcherOrNormalizerFailed(req[r])
      => /\ http_exception_handler(req[r].response).detail = "string"
         /\ http_exception_handler(req[r].response).error_type # "none"

\* the step request r can take on its own: the completion of the call it
\* awaits, or the sending of its response
StepOf(r) ==
  \/ get_issue_returns(r)
  \/ get_issue_comments_returns(r)
  \/ llm_returns(r)
  \/ respond(r)

\* how far a request has come
Rank(pc) ==
  CASE pc = "idle" -> 0
    [] pc = "await_issue" -> 1
    [] pc = "await_comments" -> 2
    [] pc = "await_llm" -> 3
    [] pc = "done" -> 4

\* the comments call of request r completes with a 200 or a 404
CommentsSucceed(r) == CommentsStep(r) /\ req'[r].gh_resp \in {RespOk, Resp404}

\* C16: requests in flight for one key do not wait for each other and do not
\* loop: a request in flight can always take its next step, whatever the
\* others do, and every step takes it further until its response is sent; a
\* request whose two calls succeed gets the bundle of its own issue and
\* comments, and writes it over whatever entry the key has, with expiry
\* now + ttl_seconds; an entry changes in no other way, so the cache holds
\* what the last writer wrote.
C16_RacingRequests ==
  /\ [](\A r \in Reqs : req[r].pc # "idle" => ENABLED StepOf(r))
  /\ [][\A r \in Reqs :
          /\ req'[r] # req[r]
               => \/ Rank(req'[r].pc) > Rank(req[r].pc)
                  \/ req[r].pc = "done" /\ req'[r] = Idle
          /\ CommentsSucceed(r)
               => /\ req'[r].issue_data # <<>>
                  /\ req'[r].issue_data[1].issue = req[r].issue[1]
                  /\ cache'[KeyOf(req[r])] = req'[r].issue_data[1]
                  /\ cache_expiry'[KeyOf(req[r])] = now + ttl_seconds
          /\ \A k \in DOMAIN cache' :
               (k \notin DOMAIN cache \/ cache'[k] # cache[k]
                  \/ cache_expiry'[k] # cache_expiry[k])
                 => \E w \in Reqs : CommentsSucceed(w) /\ KeyOf(req[w]) = k]_vars

\* two requests fetched the same cold key; the one that wrote last wrote
\* another bundle than the first, and the cache holds the last one
C16_Witness ==
  \E a, b \in Reqs :
    /\ a # b
    /\ KeyOf(req[a]) = KeyOf(req[b])
    /\ WellFormed(req[a])
    /\ req[a].n_issue = 1 /\ req[a].n_comments = 1 /\ req[a].stored_at # <<>>
    /\ req[b].n_issue = 1 /\ req[b].n_comments = 1 /\ req[b].stored_at # <<>>
    /\ req[a].stored_at[1] < req[b].stored_at[1]
    /\ req[a].issue_data # req[b].issue_data
    /\ cache[KeyOf(req[b])] = req[b].issue_data[1]
    /\ cache_expiry[KeyOf(req[b])] = req[b].stored_at[1] + ttl_seconds

\* the provider call of request r completes in this step
LLMStep(r) == req[r].pc = "await_llm" /\ req'[r].pc # "await_llm"

\* the calls request r has made so far
Calls(q) == <<q.n_issue, q.n_comments, q.n_llm>>

\* C17: a request makes at most one issue call, one comments call and one
\* LLM call, in this order: the comments call is made in the step in which
\* the issue call succeeded and in no other, the LLM call only with the
\* complete bundle in hand, and the step in which a call fails ends the
\* request with an error and makes no call.
C17_SequentialNoRetry ==
  /\ [](\A r \in Reqs :
          /\ req[r].n_issue <= 1 /\ req[r].n_comments <= 1 /\ req[r].n_llm <= 1
          /\ req[r].n_comments = 1 => req[r].n_issue = 1
          /\ req[r].pc = "await_llm" => req[r].issue_data # <<>>)
  /\ [][\A r \in Reqs :
          /\ req'[r].n_comments > req[r].n_comments
               => IssueStep(r) /\ req'[r].gh_resp = RespOk /\ req'[r].issue # <<>>
          /\ (IssueStep(r) /\ req'[r].gh_resp = RespOk) => req'[r].n_comments = 1
          /\ req'[r].n_llm > req[r].n_llm
               => /\ req'[r].issue_data # <<>>
                  /\ Lookup(r) \/ CommentsSucceed(r)
          /\ (FetchFailsStep(r) \/ (LLMStep(r) /\ req'[r].llm_reply # "json_object"))
               => /\ req'[r].pc = "done"
                  /\ req'[r].response.status_code >= 400
                  /\ Calls(req'[r]) = Calls(req[r])]_vars

\* a request made its three calls, one each, and the last one failed
C17_Witness ==
  \E r \in Reqs :
    /\ req[r].pc = "done"
    /\ Calls(req[r]) = <<1, 1, 1>>
    /\ req[r].llm_reply = "request_error"
    /\ req[r].response.status_code = 500

\* C18: in every reachable state GET /health answers 200 with status
\* "healthy", whether or not the analyzer was constructed and whatever
\* /analyze requests succeeded or failed before; its llm_service is
\* "unavailable" exactly when the analyzer was not constructed, and
\* "operational" otherwise.
C18_HealthAlwaysHealthy ==
  /\ health_check.status_code = 200
  /\ health_check.status = "healthy"
  /\ health_check.llm_service \in {"operational", "unavailable"}
  /\ health_check.llm_service = "unavailable" <=> ~llm_analyzer

\* without an analyzer, after one /analyze was answered 503 for that and
\* another failed in the Fetcher, /health still answers healthy
C18_Witness ==
  /\ ~llm_analyzer
  /\ \E a, b \in Reqs :
       /\ req[a].pc = "done" /\ req[a].response.error_type = "service_unavailable"
       /\ req[b].pc = "done" /\ FetchFailed(req[b])
  /\ health_check.status = "healthy"
  /\ health_check.llm_service = "unavailable"

\* the entry of key k is in both maps after the step as it was before
Kept(k) ==
  /\ k \in DOMAIN cache' /\ cache'[k] = cache[k]
  /\ k \in DOMAIN cache_expiry' /\ cache_expiry'[k] = cache_expiry[k]

\* C19: a lookup for a key at or past the key's expiry drops the key from
\* both maps and is a miss; a lookup is a hit only before the expiry, and
\* then returns the entry; a lookup or a write for a key leaves the entry of
\* every other key as it is, expired or not; and an entry leaves the maps in
\* no other way than by the lookup for its key at or past its expiry.
C19_LazyPurgePerKey ==
  [][/\ \A r \in Reqs :
          /\ Lookup(r)
               => LET k == KeyOf(req'[r])
                  IN /\ (k \in DOMAIN cache /\ now >= cache_expiry[k])
                          => /\ k \notin DOMAIN cache' /\ k \notin DOMAIN cache_expiry'
                             /\ req'[r].issue_data = <<>>
                     /\ req'[r].issue_data # <<>>
                          => /\ k \in DOMAIN cache /\ now < cache_expiry[k]
                             /\ req'[r].issue_data = <<cache[k]>>
                     /\ \A j \in DOMAIN cache \ {k} : Kept(j)
          /\ CommentsSucceed(r) => \A j \in DOMAIN cache \ {KeyOf(req[r])} : Kept(j)
     /\ \A j \in DOMAIN cache \ DOMAIN cache' :
          \E r \in Reqs : Lookup(r) /\ KeyOf(req'[r]) = j /\ now >= cache_expiry[j]
     /\ DOMAIN cache_expiry' = DOMAIN cache']_vars

\* an entry has expired and is still in both maps, right after a lookup for
\* another key missed and while a write for another key is in the cache
C19_Witness ==
  \E j \in DOMAIN cache, r \in Reqs :
    /\ j \in DOMAIN cache_expiry /\ cache_expiry[j] <= now
    /\ KeyOf(req[r]) # j
    /\ KeyOf(req[r]) \in DOMAIN cache
    /\ req[r].stored_at # <<>>
    /\ req[r].stored_at[1] >= cache_expiry[j]

\* ------------------------------------------------ analyze_issue alone
\* analyze_issue has returned or raised
Analyzed == analysis # <<>>
Outcome == analysis[1]

\* C11: every reply that is not a JSON object (no JSON at all, or a JSON
\* array, string or null) makes analyze_issue raise ValueError, the
\* malformed-response kind, and never return an analysis.
C11_UnparsableIsValueError ==
  (Analyzed /\ content.kind \in {"non_json", "json_array", "json_string", "json_null"})
    => (~Outcome.ok /\ Outcome.raised = "ValueError")

\* suggested_labels is missing or empty: fewer than one label
NoLabels(reply) ==
  \/ reply.suggested_labels.tag = "absent"
  \/ reply.suggested_labels.tag = "list" /\ reply.suggested_labels.chars = <<>>

\* C12: a JSON object without a label makes analyze_issue fail with a kind
\* that is neither the kind of a non-JSON reply nor the kind of a failed
\* provider call, and never return an analysis with zero labels.
C12_ShapeViolationIsDistinct ==
  (Analyzed /\ content.kind = "json_object" /\ NoLabels(content))
    => /\ ~Outcome.ok
       /\ Outcome.raised # LLMAnalyzer_analyze_issue(ReplyNonJson).raised
       /\ Outcome.raised # LLMAnalyzer_analyze_issue(ReplyRequestError).raised

\* a character and the character of a type value it stands for: a letter in
\* either case, the underscore, or a space for the underscore
Folds(c, d) ==
  \/ <<c, d>> \in {<<"Bug", "bug">>, <<"bug", "bug">>, <<"FEATURE", "feature">>,
                    <<"REQUEST", "request">>, <<"nonsense", "nonsense">>}
  \/ c \in {" ", "_"} /\ d = "_"

\* s is t with spaces around it, in any case, spaces for underscores
Spells(s, t) ==
  \E i \in 0..Len(s) :
    /\ i + Len(t) <= Len(s)
    /\ \A k \in 1..Len(s) :
         IF k <= i \/ k > i + Len(t) THEN s[k] = " " ELSE Folds(s[k], t[k - i])

\* the type the reply's `type` value stands for
ExpectedType(v) ==
  IF v.tag = "string" /\ \E t \in IssueType : Spells(v.chars, t)
  THEN CHOOSE t \in IssueType : Spells(v.chars, t)
  ELSE <<"other">>

\* the fields other than `type` pass the model's checks
OtherFieldsValid(reply) ==
  /\ reply.suggested_labels.tag = "list"
  /\ Len(reply.suggested_labels.chars) >= 1
  /\ reply.summary.tag # "null"

\* C13: whatever the reply's `type` is (absent, null, a number, any
\* string), the type of the analysis is the type value the string spells
\* once trimmed, lower-cased and with underscores for spaces, and `other`
\* when it spells none; the `type` never makes analyze_issue fail.
C13_TypeNormalizationTotal ==
  (Analyzed /\ content.kind = "json_object" /\ OtherFieldsValid(content))
    => /\ Outcome.ok
       /\ Outcome.analysis.type \in IssueType
       /\ Outcome.analysis.type = ExpectedType(content.type)

C13_Witness ==
  /\ Analyzed
  /\ content.type = Str(<<" ", "FEATURE", " ", "REQUEST", " ">>)
  /\ Outcome.ok
  /\ Outcome.analysis.type = <<"feature", "_", "request">>

\* C14: a reply with n >= 1 labels gives an analysis with the first
\* min(n, 5) of them in their order; more than 5 labels are cut, never
\* rejected.
C14_LabelsAreFirstFive ==
  (Analyzed /\ content.kind = "json_object" /\ OtherFieldsValid(content))
    => /\ Outcome.ok
       /\ LET given == content.suggested_labels.chars
               n == IF Len(given) < 5 THEN Len(given) ELSE 5
           IN Outcome.analysis.suggested_labels = [i \in 1..n |-> given[i]]

C14_Witness ==
  /\ Analyzed
  /\ Len(content.suggested_labels.chars) = 8
  /\ Outcome.ok
  /\ Len(Outcome.analysis.suggested_labels) = 5
====
